---- MODULE Spec2Model ----
(***************************************************************************)
(* git-commit-assistant: the response normalizer (_parse_ai_response) and  *)
(* the four provider services (analyze_changes) of ai_services.py, and the *)
(* run of main() of main.py: status, branch check, suggestion, details,    *)
(* message, action, commit.                                                *)
(*                                                                         *)
(* Text is a sequence of one-character strings, so that strip, lower,      *)
(* startswith, split and slicing are computed as the code computes them.   *)
(* A value decoded from the provider's text is a tagged record: k is its   *)
(* kind, and s, n, b, l hold a string, a number, a boolean, the items of a *)
(* list (or the six fields of a record), whichever the kind has.           *)
(***************************************************************************)
EXTENDS Integers, Sequences, FiniteSets, TLC

VARIABLES
    content,    \* normalizer: the raw text handed to _parse_ai_response
    out,        \* normalizer: what the call produced (record, or exception)
    npc,        \* normalizer: "ready" before the call, "returned" after it
    svc,        \* service: which of the four services is called
    diff_content, files_changed,  \* service: the two arguments ("" or text)
    pc,         \* service: position inside analyze_changes
    attempt,    \* service: loop index of OpenAIService's retry loop
    response,   \* service: the HTTP response held by the call
    log,        \* service: the HTTP requests and sleeps performed, in order
    result,     \* service: the record analyze_changes holds / returns
    outcome,    \* service: "running", "returned" or "raised"
    args,       \* main: the command line flags add, force, push
    repo,       \* main: the repository: branch, work tree, commits, pushes, remote,
                \* and the project configuration file
    mpc,        \* main: position inside main()
    prompts,    \* main: the questions put to the user and their answers
    current_suggestion,  \* main: GitCommitAssistant.current_suggestion
    details,    \* main: the record get_commit_details returned
    message,    \* main: the commit message
    exited      \* main: the exit status of the process and where it ended

nvars == <<content, out, npc>>
svars == <<svc, diff_content, files_changed, pc, attempt, response, log, result, outcome>>
mvars == <<args, repo, mpc, prompts, current_suggestion, details, message, exited>>
vars == <<content, out, npc, svc, diff_content, files_changed, pc, attempt,
          response, log, result, outcome, args, repo, mpc, prompts,
          current_suggestion, details, message, exited>>

----------------------------------------------------------------------------
(* Bounds of the model *)

\* longest run of blanks put around a description or a detail line
MaxPad == 1
\* how many lines a detailed_description carries at most
MaxLines == 2
\* description lengths are taken around the limit: MaxDescription +- Overrun
Overrun == 2

(* Program constants *)

\* len(response['description']) > 72
MaxDescription == 72
\* response['description'][:69] + '...'
KeepChars == 69
\* max_retries = 3
max_retries == 3
\* wait_time = min(2 ** attempt, 8)
MaxWait == 8

----------------------------------------------------------------------------
(* Python str primitives on character sequences *)

Whitespace == {" ", "\n", "\t"}

UpperCase == <<"A", "B", "C", "D", "E", "F", "G", "H", "I", "J", "K", "L", "M",
               "N", "O", "P", "Q", "R", "S", "T", "U", "V", "W", "X", "Y", "Z">>
LowerCase == <<"a", "b", "c", "d", "e", "f", "g", "h", "i", "j", "k", "l", "m",
               "n", "o", "p", "q", "r", "s", "t", "u", "v", "w", "x", "y", "z">>

SetMin(S) == CHOOSE m \in S : \A n \in S : m <= n
SetMax(S) == CHOOSE m \in S : \A n \in S : m >= n

\* str.lower() of one character
LowerChar(c) ==
    IF \E i \in 1..Len(UpperCase) : UpperCase[i] = c
    THEN LowerCase[CHOOSE i \in 1..Len(UpperCase) : UpperCase[i] = c]
    ELSE c

\* str.lower()
Lower(s) == [i \in 1..Len(s) |-> LowerChar(s[i])]

\* str.strip(): drops the whitespace at both ends, keeps the inner one
Strip(s) ==
    LET keep == {i \in 1..Len(s) : s[i] \notin Whitespace}
    IN  IF keep = {} THEN <<>> ELSE SubSeq(s, SetMin(keep), SetMax(keep))

\* str.startswith(p)
StartsWith(s, p) == Len(s) >= Len(p) /\ SubSeq(s, 1, Len(p)) = p

\* str.split(sep) for a one-character separator: always at least one piece
RECURSIVE SplitOn(_, _)
SplitOn(s, sep) ==
    LET at == {i \in 1..Len(s) : s[i] = sep}
    IN  IF at = {} THEN <<s>>
        ELSE <<SubSeq(s, 1, SetMin(at) - 1)>>
             \o SplitOn(SubSeq(s, SetMin(at) + 1, Len(s)), sep)

Digits == <<"0", "1", "2", "3", "4", "5", "6", "7", "8", "9">>

\* str(n) of a non-negative int
RECURSIVE DecStr(_)
DecStr(n) ==
    IF n < 10 THEN <<Digits[n + 1]>> ELSE DecStr(n \div 10) \o <<Digits[(n % 10) + 1]>>

----------------------------------------------------------------------------
(* Values a parse can yield *)

Val(kind, s, n, b, l) == [k |-> kind, s |-> s, n |-> n, b |-> b, l |-> l]

JStr(s) == Val("str", s, 0, FALSE, <<>>)
JNum(n) == Val("num", <<>>, n, FALSE, <<>>)
JBool(b) == Val("bool", <<>>, 0, b, <<>>)
JList(l) == Val("list", <<>>, 0, FALSE, l)
JNull == Val("null", <<>>, 0, FALSE, <<>>)
\* a key the dict does not have
Absent == Val("absent", <<>>, 0, FALSE, <<>>)
\* a Python generator whose first next() raises SystemExit: only eval makes one
PyGen == Val("gen", <<>>, 0, FALSE, <<>>)
\* any other Python object (a module, a function): only eval makes one
PyObj == Val("pyobj", <<>>, 0, FALSE, <<>>)

\* bool(x) / "not x" of Python; dict.get(key) of an absent key is None
Truthy(x) ==
    CASE x.k = "absent" -> FALSE
      [] x.k = "null" -> FALSE
      [] x.k = "bool" -> x.b
      [] x.k = "num" -> x.n # 0
      [] x.k = "str" -> Len(x.s) > 0
      [] x.k = "list" -> Len(x.l) > 0
      [] x.k = "dict" -> TRUE
      [] x.k = "gen" -> TRUE
      [] x.k = "pyobj" -> TRUE

\* str(x) of Python for the scalars a field can hold
PyStr(x) ==
    CASE x.k = "str" -> x.s
      [] x.k = "null" -> <<"N", "o", "n", "e">>
      [] x.k = "bool" -> IF x.b THEN <<"T", "r", "u", "e">> ELSE <<"F", "a", "l", "s", "e">>
      [] x.k = "num" -> DecStr(x.n)

----------------------------------------------------------------------------
(* AIService: the vocabulary and the canonical default *)

COMMIT_TYPES == <<
    <<"f", "e", "a", "t">>,
    <<"f", "i", "x">>,
    <<"d", "o", "c", "s">>,
    <<"s", "t", "y", "l", "e">>,
    <<"r", "e", "f", "a", "c", "t", "o", "r">>,
    <<"p", "e", "r", "f">>,
    <<"t", "e", "s", "t">>,
    <<"c", "h", "o", "r", "e">>,
    <<"c", "i">> >>

\* valid_types = [t[0] for t in self.COMMIT_TYPES]
valid_types == {COMMIT_TYPES[i] : i \in 1..Len(COMMIT_TYPES)}

\* the record of a commit suggestion (a dict with these six keys)
MkRecord(t, s, d, dd, bc, bd) ==
    [type |-> t, scope |-> s, description |-> d, detailed_description |-> dd,
     breaking_change |-> bc, breaking_description |-> bd]

\* a record as a value a parse yields, and back
JDict(r) ==
    Val("dict", <<>>, 0, FALSE,
        <<r.type, r.scope, r.description, r.detailed_description, r.breaking_change,
          r.breaking_description>>)
AsRecord(x) == MkRecord(x.l[1], x.l[2], x.l[3], x.l[4], x.l[5], x.l[6])

\* the default with the type the tests expect
get_default_response_feat ==
    MkRecord(JStr(<<"f", "e", "a", "t">>), JStr(<<"c", "o", "r", "e">>),
             JStr(<<"u", "p", "d", "a", "t", "e", " ", "c", "o", "d", "e">>),
             JList(<<JStr(<<"-", " ", "u", "p", "d", "a", "t", "e">>)>>),
             JBool(FALSE), JStr(<<>>))

get_default_response ==
    MkRecord(
        JStr(<<"c", "h", "o", "r", "e">>),
        JStr(<<"c", "o", "r", "e">>),
        JStr(<<"u", "p", "d", "a", "t", "e", " ", "p", "r", "o", "j", "e", "c", "t",
               " ", "f", "i", "l", "e", "s">>),
        JList(<<
            JStr(<<"-", " ", "M", "a", "k", "e", " ", "c", "h", "a", "n", "g", "e", "s",
                   " ", "t", "o", " ", "p", "r", "o", "j", "e", "c", "t", " ", "f", "i",
                   "l", "e", "s">>),
            JStr(<<"-", " ", "U", "p", "d", "a", "t", "e", " ", "c", "o", "d", "e", " ",
                   "s", "t", "r", "u", "c", "t", "u", "r", "e">>),
            JStr(<<"-", " ", "E", "n", "s", "u", "r", "e", " ", "c", "o", "d", "e", " ",
                   "q", "u", "a", "l", "i", "t", "y", " ", "s", "t", "a", "n", "d", "a",
                   "r", "d", "s">>) >>),
        JBool(FALSE),
        JStr(<<>>))

----------------------------------------------------------------------------
(* The provider's text, as _parse_ai_response sees it.                     *)
(* A text is a sequence of tokens: blanks, line breaks, the code-fence     *)
(* marker, the bold marker, the word json, any other word, and a payload:  *)
(* a stretch of text with the value it denotes (val) and the syntax it is  *)
(* written in (syn):                                                       *)
(*   "json"    strict JSON                                                 *)
(*   "pylit"   a Python literal that is not JSON (single quotes)           *)
(*   "pyexpr"  a Python expression with a call in it; eval runs the call   *)
(*             and yields val                                              *)
(*   "pyraise" a Python expression whose evaluation raises (exit(), an     *)
(*             unknown name)                                               *)
(*   "broken"  neither JSON nor Python (a truncated object)                *)

NoPayload == [syn |-> "", val |-> Absent]
Tok(kind) == [k |-> kind, v |-> NoPayload]
Payload(syn, val) == [k |-> "payload", v |-> [syn |-> syn, val |-> val]]

WS == Tok("ws")
NL == Tok("nl")
Fence == Tok("fence")
Bold == Tok("bold")
JsonWord == Tok("json")
Word == Tok("word")

NoneContent == [isNone |-> TRUE, toks |-> <<>>]
Text(toks) == [isNone |-> FALSE, toks |-> toks]

\* content.strip()
StripToks(toks) ==
    LET keep == {i \in 1..Len(toks) : toks[i].k \notin {"ws", "nl"}}
    IN  IF keep = {} THEN <<>> ELSE SubSeq(toks, SetMin(keep), SetMax(keep))

\* "```" in content
HasFence(toks) == \E i \in 1..Len(toks) : toks[i].k = "fence"

\* "```json" in content
HasFenceJson(toks) ==
    \E i \in 1..(Len(toks) - 1) : toks[i].k = "fence" /\ toks[i + 1].k = "json"

\* content.split("```")[1] if "```json" in content else content.split("```")[0]
StripFence(toks) ==
    IF HasFence(toks)
    THEN IF HasFenceJson(toks) THEN SplitOn(toks, Fence)[2] ELSE SplitOn(toks, Fence)[1]
    ELSE toks

\* content.replace("**", "")
StripBold(toks) ==
    LET keep(t) == t.k # "bold" IN SelectSeq(toks, keep)

\* What a parser answers: ok = it returned val; ran = it executed code of the text
ParseOk(val, ran) == [ok |-> TRUE, val |-> val, ran |-> ran]
ParseFail(ran) == [ok |-> FALSE, val |-> Absent, ran |-> ran]

\* json.loads(content): one JSON document and nothing else
json_loads(toks) ==
    IF Len(toks) = 1 /\ toks[1].k = "payload" /\ toks[1].v.syn = "json"
    THEN ParseOk(toks[1].v.val, FALSE)
    ELSE ParseFail(FALSE)

\* eval(content): Python evaluates the text as an expression, in the scope of
\* the method (where the name json is the imported module)
eval(toks) ==
    IF Len(toks) # 1 THEN ParseFail(FALSE)
    ELSE CASE toks[1].k = "json" -> ParseOk(PyObj, FALSE)
           [] toks[1].k = "payload" /\ toks[1].v.syn = "pylit" -> ParseOk(toks[1].v.val, FALSE)
           [] toks[1].k = "payload" /\ toks[1].v.syn = "pyexpr" -> ParseOk(toks[1].v.val, TRUE)
           [] toks[1].k = "payload" /\ toks[1].v.syn = "pyraise" -> ParseFail(TRUE)
           [] OTHER -> ParseFail(FALSE)

\* try json.loads; except JSONDecodeError: try eval; except: give up
ParseText(toks) ==
    IF json_loads(toks).ok THEN json_loads(toks) ELSE eval(toks)

----------------------------------------------------------------------------
(* _parse_ai_response, lines 144-189: the parsed value to the record *)

\* What a call answers: exc = "none" and the record returned, or the exception
\* that left the call
Return(rec, ran) == [exc |-> "none", ret |-> rec, ran |-> ran]
NoRecord == MkRecord(Absent, Absent, Absent, Absent, Absent, Absent)
Raise(e, ran) == [exc |-> e, ret |-> NoRecord, ran |-> ran]

\* [line.strip() for line in detailed_desc.split('\n') if line and line.strip()]
SplitDetail(s) ==
    LET pieces == SplitOn(s, "\n")
        keep(line) == Len(line) > 0 /\ Len(Strip(line)) > 0
        kept == SelectSeq(pieces, keep)
    IN  [i \in 1..Len(kept) |-> JStr(Strip(kept[i]))]

\* the prefix put in front of every line, prefixed or not
FormatLine_always(line) == <<"-", " ">> \o Strip(line)

\* line if line.strip().startswith("- ") else f"- {line.strip()}"
FormatLine(line) ==
    IF StartsWith(Strip(line), <<"-", " ">>) THEN line ELSE <<"-", " ">> \o Strip(line)

\* the comprehension without its filter: every entry becomes a line
FormatLines_keepAll(items) ==
    [i \in 1..Len(items) |-> JStr(FormatLine(items[i].s))]

\* the comprehension of lines 164-168 over a list
FormatLines(items) ==
    LET keep(x) == Truthy(x) /\ x.k = "str" /\ Len(Strip(x.s)) > 0
        kept == SelectSeq(items, keep)
    IN  [i \in 1..Len(kept) |-> JStr(FormatLine(kept[i].s))]

\* the type kept as it came
CheckType_keep(t) == t

\* lines 178-182: the type, or 'chore' for a type outside the vocabulary
CheckType(t) ==
    IF t.k = "str" /\ t.s \in valid_types THEN t ELSE JStr(<<"c", "h", "o", "r", "e">>)

\* the cut taken one character early: ">=" for ">"
Truncate_early(d) ==
    LET s == Strip(Lower(PyStr(d)))
    IN  IF Len(s) >= MaxDescription
        THEN SubSeq(s, 1, KeepChars) \o <<".", ".", ".">>
        ELSE s

\* lines 184-187: lowercase, trim, cut to 69 characters plus '...'
Truncate(d) ==
    LET s == Strip(Lower(PyStr(d)))
    IN  IF Len(s) > MaxDescription
        THEN SubSeq(s, 1, KeepChars) \o <<".", ".", ".">>
        ELSE s

\* line 175: bool(response.get('breaking_change', False))
CoerceBreaking(b) == JBool(Truthy(b))

\* line 176: str(response.get('breaking_description', '')).strip()
CoerceBreakingDesc(b) == JStr(IF b.k = "absent" THEN <<>> ELSE Strip(PyStr(b)))

\* lines 154-157: detailed_description, a string split into its lines
DetailOf(d) ==
    LET dd == IF d.detailed_description.k = "absent" THEN JList(<<>>)
              ELSE d.detailed_description
    IN  IF dd.k = "str" THEN JList(SplitDetail(dd.s)) ELSE dd

\* the check passing a field that is there, empty or not
MissingRequired_absentOnly(d) ==
    d.type.k = "absent" \/ d.scope.k = "absent" \/ d.description.k = "absent"

\* line 150: not response.get('type') or not response.get('scope') or
\* not response.get('description')
MissingRequired(d) == ~Truthy(d.type) \/ ~Truthy(d.scope) \/ ~Truthy(d.description)

Validate(parsed) ==
    LET ran == parsed.ran
        d == AsRecord(parsed.val)
        dd == DetailOf(d)
        lines == FormatLines(dd.l)
    IN  IF parsed.val.k # "dict" THEN Return(get_default_response, ran)
        ELSE IF MissingRequired(d) THEN Return(get_default_response, ran)
        ELSE IF ~Truthy(dd) THEN Return(get_default_response, ran)
        \* iterating the generator raises SystemExit, which "except Exception"
        \* does not catch
        ELSE IF dd.k = "gen" THEN Raise("SystemExit", ran)
        \* iterating a number or True raises TypeError, caught at line 191
        ELSE IF dd.k # "list" THEN Return(get_default_response, ran)
        ELSE IF lines = <<>> THEN Return(get_default_response, ran)
        ELSE Return(MkRecord(CheckType(d.type), d.scope, JStr(Truncate(d.description)),
                             JList(lines), CoerceBreaking(d.breaking_change),
                             CoerceBreakingDesc(d.breaking_description)), ran)

\* _parse_ai_response
parse_ai_response(c) ==
    IF c.isNone THEN Return(get_default_response, FALSE)
    ELSE LET cleaned == StripToks(StripBold(StripFence(StripToks(c.toks))))
             parsed == ParseText(cleaned)
         IN  IF ~parsed.ok THEN Return(get_default_response, parsed.ran)
             ELSE Validate(parsed)

----------------------------------------------------------------------------
(* The texts the normalizer is run on *)

Pad(n) == [i \in 1..n |-> " "]

Pattern == <<"A", "d", "d", " ", "L", "o", "g", "i", "n", " ">>

\* a description of n characters, mixed case, blanks inside
Body(n) == [i \in 1..n |-> Pattern[((i - 1) % Len(Pattern)) + 1]]

DescLens ==
    {1, 9, 100} \cup ((MaxDescription - Overrun)..(MaxDescription + Overrun))

Padded(S) ==
    S \cup {Pad(p) \o s \o Pad(p) : p \in 1..MaxPad, s \in S}
      \cup {Pad(p) \o s : p \in 1..MaxPad, s \in S}

DescTexts == Padded({Body(n) : n \in DescLens})

DescVals ==
    {JStr(s) : s \in DescTexts}
    \cup {Absent, JNull, JStr(<<>>), JStr(<<" ">>), JNum(0), JNum(42), JBool(TRUE)}

LineAtoms ==
    {<<"-", " ", "a">>, <<"b">>, <<"-", "c">>, <<>>, <<"-", " ", "-", " ", "d">>}

LineTexts == Padded(LineAtoms)

\* all sequences over S of at most n elements
RECURSIVE SeqsUpTo(_, _)
SeqsUpTo(S, n) ==
    IF n = 0 THEN {<<>>}
    ELSE LET shorter == SeqsUpTo(S, n - 1)
         IN  shorter \cup {q \o <<x>> : q \in shorter, x \in S}

\* "\n".join(lines)
RECURSIVE Join(_)
Join(lines) ==
    IF Len(lines) = 0 THEN <<>>
    ELSE IF Len(lines) = 1 THEN lines[1]
    ELSE lines[1] \o <<"\n">> \o Join(Tail(lines))

DetailVals ==
    {JStr(Join(q)) : q \in SeqsUpTo(LineTexts, MaxLines)}
    \cup {JList(q) : q \in SeqsUpTo({JStr(l) : l \in LineTexts} \cup {JNum(5), JNull},
                                    MaxLines)}
    \cup {Absent, JNull, JNum(5), JNum(0), JBool(TRUE)}

TypeVals ==
    {JStr(<<"f", "e", "a", "t">>), JStr(<<"c", "i">>),
     JStr(<<"b", "a", "n", "a", "n", "a">>), JStr(<<"F", "e", "a", "t">>),
     JStr(<<>>), Absent, JNum(7)}

ScopeVals == {JStr(<<"c", "o", "r", "e">>), JStr(<<"A", "P", "I">>), Absent, JStr(<<>>)}

BreakingVals == {Absent, JBool(TRUE), JBool(FALSE), JStr(<<"f", "a", "l", "s", "e">>)}

BreakingDescVals ==
    {Absent, JStr(<<>>), JStr(<<" ", "w", "h", "y", " ">>), JNull}

\* a well-formed record, and the fields varied around it
BaseRecord ==
    MkRecord(JStr(<<"f", "e", "a", "t">>), JStr(<<"c", "o", "r", "e">>), JStr(Body(9)),
             JStr(<<"-", " ", "a">>), JBool(FALSE), JStr(<<>>))

CoreRecords ==
    {MkRecord(t, s, d, dd, bc, bd) :
        t \in TypeVals, s \in ScopeVals,
        d \in {JStr(Body(9)), JStr(<<" ">>)},
        dd \in {JStr(<<"-", " ", "a", "\n", "b">>), JList(<<JStr(<<" ", "-", " ", "a">>)>>)},
        bc \in BreakingVals, bd \in BreakingDescVals}

Records ==
    CoreRecords
    \cup {[BaseRecord EXCEPT !.description = d, !.type = t] :
            d \in DescVals, t \in {JStr(<<"f", "e", "a", "t">>), JStr(<<"b", "a", "n", "a", "n", "a">>)}}
    \cup {[BaseRecord EXCEPT !.detailed_description = dd] : dd \in DetailVals}
    \cup {get_default_response}

\* values a text can denote that are not a record
NonRecords == {JNum(5), JNull, JStr(<<"o", "k">>), JList(<<JDict(BaseRecord)>>), JBool(TRUE)}

\* the payloads put inside the wrappings below
WrappedPayloads ==
    {Payload(syn, JDict(r)) :
        syn \in {"json", "pylit", "pyexpr", "pyraise", "broken"},
        r \in {BaseRecord, get_default_response,
               [BaseRecord EXCEPT !.type = JStr(<<"b", "a", "n", "a", "n", "a">>)]}}
    \cup {Payload(syn, v) : syn \in {"json", "pylit", "pyexpr"}, v \in NonRecords}
    \cup {Payload("pyexpr", JDict([BaseRecord EXCEPT !.detailed_description = PyGen])),
          Payload("pyexpr", PyObj)}

Wrappings(p) ==
    {<<p>>,
     <<WS, p, NL>>,
     <<Fence, JsonWord, NL, p, NL, Fence>>,
     <<Fence, NL, p, NL, Fence>>,
     <<Word, WS, Word, NL, Fence, JsonWord, NL, p, NL, Fence>>,
     <<Word, NL, Fence, NL, p, NL, Fence, NL, Word>>,
     <<Bold, p, Bold>>,
     <<Bold, Word, Bold, NL, p>>,
     <<Word, WS, p>>,
     <<p, NL, Word>>,
     <<JsonWord, NL, p>>}

RawTexts ==
    {NoneContent, Text(<<>>), Text(<<WS, NL>>), Text(<<Word, WS, JsonWord, WS, Word>>),
     Text(<<JsonWord>>), Text(<<Word>>), Text(<<Fence, Fence>>), Text(<<Bold, Bold>>)}
    \cup {Text(<<Payload("json", JDict(r))>>) : r \in Records}
    \cup {Text(w) : w \in UNION {Wrappings(p) : p \in WrappedPayloads}}

----------------------------------------------------------------------------
(* The call of _parse_ai_response on one text *)

Pending == [exc |-> "pending", ret |-> NoRecord, ran |-> FALSE]

NoResponse == [kind |-> "none", status |-> 0, shape |-> "none", text |-> NoneContent]

ServiceIdle ==
    /\ svc = "none"
    /\ diff_content = ""
    /\ files_changed = ""
    /\ pc = "idle"
    /\ attempt = 0
    /\ response = NoResponse
    /\ log = <<>>
    /\ result = NoRecord
    /\ outcome = "idle"

\* main() is not running
NotExited == [code |-> -1, at |-> "none"]
NoRepo ==
    [branch |-> "", worktree |-> "clean", commits |-> <<>>, pushes |-> 0,
     remote |-> "unseen", config |-> [given |-> FALSE, commitTypes |-> <<>>]]

MainIdle ==
    /\ args = [add |-> FALSE, force |-> FALSE, push |-> FALSE]
    /\ repo = NoRepo
    /\ mpc = "idle"
    /\ prompts = <<>>
    /\ current_suggestion = NoRecord
    /\ details = NoRecord
    /\ message = <<>>
    /\ exited = NotExited

NormInit ==
    /\ content \in RawTexts
    /\ out = Pending
    /\ npc = "ready"
    /\ ServiceIdle
    /\ MainIdle

Normalize ==
    /\ npc = "ready"
    /\ out' = parse_ai_response(content)
    /\ npc' = "returned"
    /\ UNCHANGED <<content, svc, diff_content, files_changed, pc, attempt, response,
                   log, result, outcome, mvars>>

NormNext == Normalize

SpecNorm == NormInit /\ [][NormNext]_vars

----------------------------------------------------------------------------
(* The four services: analyze_changes against a provider.                  *)
(*                                                                         *)
(* What requests.post does is the provider's choice:                       *)
(*   kind "neterr"  it raises a requests RequestException (no connection,  *)
(*                  timeout)                                               *)
(*   kind "error"   it raises another Exception                            *)
(*   kind "http"    it returns a response with a status and a body         *)
(* The body has a shape:                                                   *)
(*   "notjson"  response.json() raises                                     *)
(*   "errbody"  a JSON object with an "error" key and none of the fields   *)
(*              the text is looked up under                                *)
(*   "nopath"   a JSON object without those fields and without "error"     *)
(*   "untyped"  Claude only: a content list whose item has a text and no   *)
(*              "type": "text"                                             *)
(*   "full"     the text is where the service looks it up                  *)
(* A response with an error status carries an error body, as the           *)
(* providers' APIs do: no completion comes with a 429 or a 500.            *)

Services == {"openai", "deepseek", "claude", "gemini"}

Http(status, shape, text) ==
    [kind |-> "http", status |-> status, shape |-> shape, text |-> text]
Failure(kind) == [kind |-> kind, status |-> 0, shape |-> "none", text |-> NoneContent]

\* the record of the tests' mocked answers
TestRecord ==
    MkRecord(JStr(<<"f", "e", "a", "t">>), JStr(<<"c", "o", "r", "e">>),
             JStr(<<"t", "e", "s", "t", " ", "c", "o", "m", "m", "i", "t">>),
             JStr(<<"-", " ", "A", "d", "d", "e", "d", " ", "t", "e", "s", "t", " ", "f",
                    "e", "a", "t", "u", "r", "e">>),
             JBool(FALSE), JStr(<<>>))

\* an answer that flags a breaking change and says why
BreakingRecord ==
    [TestRecord EXCEPT
        !.scope = JStr(<<"A", "P", "I">>),
        !.breaking_change = JBool(TRUE),
        !.breaking_description = JStr(<<"D", "r", "o", "p", "s", " ", "V", "1">>)]

\* an answer that flags no breaking change and still describes one
StaleRecord == [BreakingRecord EXCEPT !.breaking_change = JBool(FALSE)]

\* an answer whose description is a blank
BlankRecord == [TestRecord EXCEPT !.description = JStr(<<" ">>)]

\* the texts a provider answers with
ServiceTexts ==
    {NoneContent,
     Text(<<>>),
     Text(<<Word, WS, JsonWord>>),
     Text(<<Payload("json", JDict(TestRecord))>>),
     Text(<<Payload("json", JDict(BreakingRecord))>>),
     Text(<<Payload("json", JDict(StaleRecord))>>),
     Text(<<Payload("json", JDict(get_default_response))>>),
     Text(<<Payload("json", JDict(BlankRecord))>>),
     Text(<<Fence, JsonWord, NL, Payload("json", JDict(TestRecord)), NL, Fence>>),
     Text(<<Payload("pyexpr", JDict([TestRecord EXCEPT !.detailed_description = PyGen]))>>)}

Shapes(s) == IF s = "claude" THEN {"untyped", "full"} ELSE {"full"}

Responses(s) ==
    {Failure("neterr"), Failure("error")}
    \cup {Http(st, sh, NoneContent) : st \in {429, 500}, sh \in {"notjson", "errbody"}}
    \cup {Http(200, sh, NoneContent) : sh \in {"notjson", "errbody", "nopath"}}
    \cup {Http(200, sh, t) : sh \in Shapes(s), t \in ServiceTexts}

\* one entry of the history of a call: a request sent (with what came back),
\* a sleep (n seconds) or a call of _parse_ai_response (with what it produced)
Post(hint, n, r) ==
    [ev |-> "post", hint |-> hint, n |-> n, kind |-> r.kind, status |-> r.status,
     shape |-> r.shape, text |-> r.text, res |-> Pending]
Slept(n) ==
    [ev |-> "sleep", hint |-> FALSE, n |-> n, kind |-> "none", status |-> 0,
     shape |-> "none", text |-> NoneContent, res |-> Pending]
Parsed(hint, res) ==
    [ev |-> "parse", hint |-> hint, n |-> 0, kind |-> "none", status |-> 0,
     shape |-> "none", text |-> NoneContent, res |-> res]

\* the check of the arguments left out
NoChanges_skipped(d, f) == FALSE

\* if not diff_content and not files_changed
NoChanges(d, f) == d = "" /\ f = ""

\* response.raise_for_status(): HTTPError for a 4xx or 5xx status
RaisesForStatus(r) == r.status >= 400 /\ r.status < 600

\* requests.post raised, or raise_for_status did, with a RequestException
RequestFailed(r) == r.kind = "neterr" \/ (r.kind = "http" /\ RaisesForStatus(r))

\* every service trying a failed attempt again
RetriesFailure_all(s, n) == n # max_retries - 1

\* OpenAIService, lines 342-346: a failed attempt is tried again unless it is
\* the last one; the other services have no such loop
RetriesFailure(s, n) == s = "openai" /\ n # max_retries - 1

\* every service sleeping on a 429 and trying again
Retries429_all(s, r) == r.kind = "http" /\ r.status = 429

\* OpenAIService, line 332: a 429 is slept on and tried again; the other
\* services have no such branch
Retries429(s, r) == s = "openai" /\ r.kind = "http" /\ r.status = 429

\* 2 ** attempt
RECURSIVE Pow2(_)
Pow2(n) == IF n = 0 THEN 1 ELSE 2 * Pow2(n - 1)

\* a wait growing by one second per attempt
wait_time_linear(n) == n + 1

\* wait_time = min(2 ** attempt, 8)
wait_time(n) == IF Pow2(n) < MaxWait THEN Pow2(n) ELSE MaxWait

\* _extract_content of the service (inline in GeminiService): the text, or
\* nothing when the body does not hold it where the service looks
extract_content(s, r) ==
    IF r.shape = "full" THEN r.text ELSE Text(<<>>)

\* the test of the extracted text left out
HasContent_always(c) == TRUE

\* "if not content" / "if content"
HasContent(c) == ~c.isNone /\ Len(c.toks) > 0

\* lines 232, 359, 631: the services that ask again when the result is the
\* default; ClaudeService.analyze_changes returns the result as it is
AsksAgain(s) == s # "claude"

Finish(rec) ==
    /\ pc' = "done"
    /\ result' = rec
    /\ outcome' = "returned"

\* an exception that "except Exception" does not catch leaves analyze_changes
Escape ==
    /\ pc' = "done"
    /\ result' = NoRecord
    /\ outcome' = "raised"

Init ==
    /\ svc \in Services
    /\ diff_content \in {"", "diff"}
    /\ files_changed \in {"", "files"}
    /\ pc = "start"
    /\ attempt = 0
    /\ response = NoResponse
    /\ log = <<>>
    /\ result = NoRecord
    /\ outcome = "running"
    /\ content = NoneContent
    /\ out = Pending
    /\ npc = "idle"
    /\ MainIdle

\* the entry of analyze_changes: nothing to analyze, or the prompt is built
Start ==
    /\ pc = "start"
    /\ IF NoChanges(diff_content, files_changed)
       THEN Finish(get_default_response)
       ELSE pc' = "request" /\ UNCHANGED <<result, outcome>>
    /\ UNCHANGED <<svc, diff_content, files_changed, attempt, response, log, nvars, mvars>>

\* requests.post with the plain request body, and what the status leads to
Request ==
    /\ pc = "request"
    /\ \E r \in Responses(svc) :
        /\ response' = r
        /\ log' = Append(log, Post(FALSE, attempt, r))
        /\ IF r.kind = "error"
           THEN Finish(get_default_response) /\ UNCHANGED attempt
           ELSE IF Retries429(svc, r)
           THEN pc' = "sleep" /\ UNCHANGED <<attempt, result, outcome>>
           ELSE IF RequestFailed(r) \/ (svc = "claude" /\ r.status # 200)
           THEN IF RetriesFailure(svc, attempt)
                THEN /\ attempt' = attempt + 1
                     /\ UNCHANGED <<pc, result, outcome>>
                ELSE Finish(get_default_response) /\ UNCHANGED attempt
           ELSE pc' = "process" /\ UNCHANGED <<attempt, result, outcome>>
    /\ UNCHANGED <<svc, diff_content, files_changed, nvars, mvars>>

\* OpenAIService: time.sleep(wait_time); continue
Sleep ==
    /\ pc = "sleep"
    /\ log' = Append(log, Slept(wait_time(attempt)))
    /\ IF attempt = max_retries - 1
       THEN pc' = "process" /\ UNCHANGED attempt
       ELSE pc' = "request" /\ attempt' = attempt + 1
    /\ UNCHANGED <<svc, diff_content, files_changed, response, result, outcome, nvars,
                   mvars>>

\* response.json(), the text extracted, _parse_ai_response
Process ==
    /\ pc = "process"
    /\ LET c == extract_content(svc, response)
           p == parse_ai_response(c)
       IN  IF response.shape = "notjson" \/ ~HasContent(c)
           THEN Finish(get_default_response) /\ UNCHANGED log
           ELSE /\ log' = Append(log, Parsed(FALSE, p))
                /\ IF p.exc # "none" THEN Escape
                   ELSE IF p.ret = get_default_response /\ AsksAgain(svc)
                   THEN pc' = "retry" /\ result' = p.ret /\ UNCHANGED outcome
                   ELSE Finish(p.ret)
    /\ UNCHANGED <<svc, diff_content, files_changed, attempt, response, nvars, mvars>>

\* the request sent once more with the retry hint, and its answer
Retry ==
    /\ pc = "retry"
    /\ \E r \in Responses(svc) :
        LET c == extract_content(svc, r)
            p == parse_ai_response(c)
        IN  /\ response' = r
            /\ IF r.kind # "http" \/ RaisesForStatus(r) \/ r.shape = "notjson"
               THEN Finish(get_default_response) /\ log' = Append(log, Post(TRUE, 0, r))
               ELSE IF ~HasContent(c)
               THEN Finish(result) /\ log' = Append(log, Post(TRUE, 0, r))
               ELSE /\ log' = log \o <<Post(TRUE, 0, r), Parsed(TRUE, p)>>
                    /\ IF p.exc # "none" THEN Escape ELSE Finish(p.ret)
    /\ UNCHANGED <<svc, diff_content, files_changed, attempt, nvars, mvars>>

Next == Start \/ Request \/ Sleep \/ Process \/ Retry

Spec == Init /\ [][Next]_vars

\* a step of the call: it moves on to another place, or to the next attempt
Advance ==
    /\ pc # "done"
    /\ pc' \in {"request", "sleep", "process", "retry", "done"}
    /\ attempt' \in 0..(max_retries - 1)
    /\ <<pc', attempt'>> # <<pc, attempt>>

\* one thread runs the call and every request has a timeout: a call that has
\* not returned takes its next step
SpecFair == Spec /\ WF_<<pc, attempt>>(Advance)

----------------------------------------------------------------------------
(* main.py: GitCommitAssistant and main().                                 *)
(*                                                                         *)
(* A glyph is written as the names of its code points, one element each,   *)
(* so that "<glyph> <type>".split() is computed on the text of the source. *)
(* The project has no configuration file, or one with an empty list of     *)
(* commit types; from get_commit_details on, commit types and scopes are   *)
(* the class constants.                                                    *)

\* GitCommitAssistant.COMMIT_TYPES: the first item of each pair
ASSISTANT_COMMIT_TYPES == <<
    <<"U+1F680", " ", "f", "e", "a", "t">>,
    <<"U+1F41B", " ", "f", "i", "x">>,
    <<"U+1F4DD", " ", "d", "o", "c", "s">>,
    <<"U+1F485", " ", "s", "t", "y", "l", "e">>,
    <<"U+267B", "U+FE0F", " ", "r", "e", "f", "a", "c", "t", "o", "r">>,
    <<"U+26A1", "U+FE0F", " ", "p", "e", "r", "f">>,
    <<"U+1F9EA", " ", "t", "e", "s", "t">>,
    <<"U+1F527", " ", "c", "h", "o", "r", "e">>,
    <<"U+1F504", " ", "c", "i">> >>

\* GitCommitAssistant.SCOPES
SCOPES == <<
    <<"c", "o", "r", "e">>,
    <<"u", "i">>,
    <<"a", "p", "i">>,
    <<"d", "a", "t", "a">>,
    <<"a", "u", "t", "h">>,
    <<"c", "o", "n", "f", "i", "g">>,
    <<"t", "e", "s", "t">>,
    <<"d", "o", "c", "s">> >>

protected_branches == {"main", "master", "dev", "develop"}

\* ProjectAnalyzer.DEFAULT_TYPES: the first item of each pair
DEFAULT_TYPES ==
    <<"feat", "fix", "docs", "style", "refactor", "perf", "test", "chore", "ci">>

\* load_project_config: no file (the empty configuration), or the file
\* {"commitTypes": []}
NoConfig == [given |-> FALSE, commitTypes |-> <<>>]
ProjectConfigs == {NoConfig, [given |-> TRUE, commitTypes |-> <<>>]}

\* generate_adaptive_prompt: config.get('commitTypes', self.DEFAULT_TYPES)
prompt_commit_types(config) ==
    IF config.given THEN config.commitTypes ELSE DEFAULT_TYPES

\* generate_adaptive_prompt: commit_types[0] raises IndexError on an empty list
PromptRaises(config) == Len(prompt_commit_types(config)) = 0

\* _get_default_commit_details
get_default_commit_details ==
    MkRecord(
        JStr(<<"f", "e", "a", "t">>),
        JStr(<<"c", "o", "r", "e">>),
        JStr(<<"u", "p", "d", "a", "t", "e", " ", "c", "o", "d", "e">>),
        JList(<<
            JStr(<<"-", " ", "A", "d", "d", "e", "d", " ", "n", "e", "w", " ", "f",
                   "u", "n", "c", "t", "i", "o", "n", "a", "l", "i", "t", "y", " ",
                   "t", "o", " ", "i", "m", "p", "r", "o", "v", "e", " ", "s", "y",
                   "s", "t", "e", "m", " ", "c", "a", "p", "a", "b", "i", "l", "i",
                   "t", "i", "e", "s">>),
            JStr(<<"-", " ", "E", "n", "h", "a", "n", "c", "e", "d", " ", "c", "o",
                   "d", "e", " ", "s", "t", "r", "u", "c", "t", "u", "r", "e", " ",
                   "f", "o", "r", " ", "b", "e", "t", "t", "e", "r", " ", "m", "a",
                   "i", "n", "t", "a", "i", "n", "a", "b", "i", "l", "i", "t", "y">>),
            JStr(<<"-", " ", "I", "m", "p", "r", "o", "v", "e", "d", " ", "u", "s",
                   "e", "r", " ", "e", "x", "p", "e", "r", "i", "e", "n", "c", "e",
                   " ", "w", "i", "t", "h", " ", "c", "l", "e", "a", "r", "e", "r",
                   " ", "f", "e", "e", "d", "b", "a", "c", "k">>),
            JStr(<<"-", " ", "U", "p", "d", "a", "t", "e", "d", " ", "d", "o", "c",
                   "u", "m", "e", "n", "t", "a", "t", "i", "o", "n", " ", "t", "o",
                   " ", "r", "e", "f", "l", "e", "c", "t", " ", "c", "h", "a", "n",
                   "g", "e", "s">>) >>),
        JBool(FALSE),
        JStr(<<>>))

\* line if line.startswith("- ") else f"- {line}"
WithPrefix(line) == IF StartsWith(line, <<"-", " ">>) THEN line ELSE <<"-", " ">> \o line

\* GitCommitAssistant.analyze_changes, lines 371-400: the checks made on the
\* record the service returned
assistant_analyze_changes(r) ==
    LET dd == r.detailed_description
        keep(x) == Truthy(x) /\ x.k = "str" /\ Len(Strip(x.s)) > 0
        valid_lines == SelectSeq(dd.l, keep)
    IN  IF ~Truthy(r.type) \/ ~Truthy(r.scope) \/ ~Truthy(r.description)
        THEN get_default_commit_details
        ELSE IF ~Truthy(dd) \/ dd.k # "list" THEN get_default_commit_details
        ELSE IF valid_lines = <<>> THEN get_default_commit_details
        ELSE [r EXCEPT !.detailed_description =
                 JList([i \in 1..Len(valid_lines) |->
                           JStr(WithPrefix(Strip(valid_lines[i].s)))])]

\* str.strip("'\"")
StripQuotes(s) ==
    LET keep == {i \in 1..Len(s) : s[i] \notin {"'", "\""}}
    IN  IF keep = {} THEN <<>> ELSE SubSeq(s, SetMin(keep), SetMax(keep))

\* lines 310-325 and 451-468: the detail lines trimmed, unquoted, lowercased,
\* the empty ones dropped, each one prefixed
formatted_lines(dd) ==
    LET detailed_lines == IF dd.k = "list" THEN [i \in 1..Len(dd.l) |-> dd.l[i].s]
                          ELSE SplitOn(dd.s, "\n")
        clean == [i \in 1..Len(detailed_lines) |->
                     Lower(StripQuotes(Strip(detailed_lines[i])))]
        keep(line) == Len(line) > 0
        kept == SelectSeq(clean, keep)
    IN  IF Truthy(dd) THEN [i \in 1..Len(kept) |-> WithPrefix(kept[i])] ELSE <<>>

\* the value 'detailed_description' of the record get_commit_details returns
DetailLines(dd) ==
    LET lines == formatted_lines(dd) IN JList([i \in 1..Len(lines) |-> JStr(lines[i])])

\* get_commit_details with force, lines 336-344: the suggestion as it is
ForcedDetails(sugg) ==
    MkRecord(sugg.type, sugg.scope, JStr(Lower(sugg.description.s)),
             DetailLines(sugg.detailed_description), sugg.breaking_change,
             sugg.breaking_description)

\* get_commit_details without force, lines 350-357: the user's type, scope
\* and answer to "Is this a breaking change?"
ChosenDetails(sugg, commit_type, is_breaking, scope) ==
    MkRecord(JStr(commit_type), JStr(scope), JStr(Lower(sugg.description.s)),
             DetailLines(sugg.detailed_description),
             JBool(is_breaking),
             IF is_breaking THEN sugg.breaking_description ELSE JStr(<<>>))

\* str.split(): the pieces between blanks
Words(s) == LET keep(w) == Len(w) > 0 IN SelectSeq(SplitOn(s, " "), keep)

\* commit_types[choice-1][0].split()[-1]
selected_type(choice) ==
    LET pieces == Words(ASSISTANT_COMMIT_TYPES[choice]) IN pieces[Len(pieces)]

\* next((t[0].split()[0] for t in COMMIT_TYPES if t[0].split()[1] == type), "")
emoji(t) ==
    LET hits == {i \in 1..Len(ASSISTANT_COMMIT_TYPES) :
                    t.k = "str" /\ Words(ASSISTANT_COMMIT_TYPES[i])[2] = t.s}
    IN  IF hits = {} THEN <<>> ELSE Words(ASSISTANT_COMMIT_TYPES[SetMin(hits)])[1]

BreakingFooter == <<"B", "R", "E", "A", "K", "I", "N", "G", " ", "C", "H", "A", "N", "G",
                    "E", ":", " ">>

\* the header without the "!" of a breaking change
type_part_plain(d) == PyStr(d.type)

\* line 443: f"{details['type']}!" if details['breaking_change'] else details['type']
type_part(d) ==
    IF Truthy(d.breaking_change) THEN PyStr(d.type) \o <<"!">> ELSE PyStr(d.type)

\* format_commit_message
format_commit_message(d) ==
    LET scope == IF Truthy(d.scope) THEN Lower(d.scope.s) ELSE <<"c", "o", "r", "e">>
        header == emoji(d.type) \o <<" ">> \o type_part(d) \o <<"(">> \o scope
                  \o <<")", ":", " ">> \o Lower(d.description.s)
        lines == formatted_lines(d.detailed_description)
        body == IF lines # <<>> THEN <<"\n", "\n">> \o Join(lines) ELSE <<>>
        breaking_desc == d.breaking_description
        footer == IF Truthy(d.breaking_change)
                  THEN <<"\n", "\n">> \o BreakingFooter
                       \o (IF Truthy(breaking_desc) THEN Lower(breaking_desc.s) ELSE <<>>)
                  ELSE <<>>
    IN  header \o body \o footer

\* the confirmation asked whatever the branch, unless force is given
AsksConfirmation_unlessForce(branch, force) == branch \in protected_branches /\ ~force

\* validate_branch, line 427: if current in protected_branches
AsksConfirmation(branch, force) == branch \in protected_branches

\* a question put to the user (Confirm.ask, IntPrompt.ask, questionary) and
\* the answer; n is the number typed at an IntPrompt
Asked(q, a, n) == [q |-> q, a |-> a, n |-> n]

\* sys.exit(code), an exception that ends the process, or the end of main()
Exit(code, at) ==
    /\ mpc' = "exit"
    /\ exited' = [code |-> code, at |-> at]

Branches == {"main", "master", "dev", "develop", "feature"}

\* what the user types at "Select commit type": two entries of the table and
\* a number past its end
TypeChoices == {1, 2, Len(ASSISTANT_COMMIT_TYPES) + 1}
ScopeChoices == {1, 3}

\* what the editor leaves in the temporary file
EditedMessages == {<<" ", "w", "i", "p", "\n">>}

\* main, lines 655 and 678-688: the service of the command line or of the
\* configuration file
MainServices == Services

MainInit ==
    /\ args \in [add : BOOLEAN, force : BOOLEAN, push : BOOLEAN]
    /\ repo \in {[NoRepo EXCEPT !.branch = b, !.worktree = w, !.config = c] :
                    b \in Branches, w \in {"clean", "unstaged", "staged"},
                    c \in ProjectConfigs}
    /\ mpc = "status"
    /\ prompts = <<>>
    /\ current_suggestion = NoRecord
    /\ details = NoRecord
    /\ message = <<>>
    /\ exited = NotExited
    /\ svc \in MainServices
    /\ diff_content = ""
    /\ files_changed = ""
    /\ pc = "idle"
    /\ attempt = 0
    /\ response = NoResponse
    /\ log = <<>>
    /\ result = NoRecord
    /\ outcome = "idle"
    /\ content = NoneContent
    /\ out = Pending
    /\ npc = "idle"

\* main, lines 705-718: git add, show_file_status, has_staged_changes
ShowStatus ==
    /\ mpc = "status"
    /\ LET worktree == IF args.add /\ repo.worktree = "unstaged" THEN "staged"
                       ELSE repo.worktree
       IN  /\ repo' = [repo EXCEPT !.worktree = worktree]
           /\ IF worktree = "clean" THEN Exit(0, "status")
              ELSE IF worktree # "staged" THEN Exit(1, "status")
              ELSE mpc' = "branch" /\ UNCHANGED exited
    /\ UNCHANGED <<args, prompts, current_suggestion, details, message, nvars, svars>>

\* validate_branch
validate_branch ==
    /\ mpc = "branch"
    /\ IF AsksConfirmation(repo.branch, args.force)
       THEN \E a \in {"yes", "no", "interrupt"} :
               /\ prompts' = Append(prompts, Asked("branch", a, 0))
               /\ IF a = "yes" THEN mpc' = "diff" /\ UNCHANGED exited
                  ELSE Exit(0, "branch")
       ELSE mpc' = "diff" /\ UNCHANGED <<prompts, exited>>
    /\ UNCHANGED <<args, repo, current_suggestion, details, message, nvars, svars>>

\* main, lines 723-739, and get_commit_details up to the call of the service:
\* the prompt of the project is made first, outside the try of analyze_changes,
\* and an exception it raises ends the process
GitDiff ==
    /\ mpc = "diff"
    /\ \E ok \in BOOLEAN :
        IF ~ok
        THEN /\ Exit(1, "diff")
             /\ UNCHANGED <<diff_content, files_changed, pc, outcome>>
        ELSE IF PromptRaises(repo.config)
        THEN /\ Exit(1, "details")
             /\ UNCHANGED <<diff_content, files_changed, pc, outcome>>
        ELSE /\ mpc' = "service"
             /\ diff_content' = "diff"
             /\ files_changed' = "files"
             /\ pc' = "start"
             /\ outcome' = "running"
             /\ UNCHANGED exited
    /\ UNCHANGED <<args, repo, prompts, current_suggestion, details, message, nvars,
                   svc, attempt, response, log, result>>

\* the call of the service is over: its arguments and locals are gone
ServiceReturned ==
    /\ diff_content' = ""
    /\ files_changed' = ""
    /\ pc' = "idle"
    /\ attempt' = 0
    /\ response' = NoResponse
    /\ log' = <<>>
    /\ result' = NoRecord
    /\ outcome' = "idle"

\* GitCommitAssistant.analyze_changes from the return of the service on,
\* called at line 297: self.current_suggestion = self.analyze_changes(...).
\* A SystemExit that left the service leaves main too.
analyze_changes ==
    /\ mpc = "service"
    /\ pc = "done"
    /\ ServiceReturned
    /\ IF outcome = "raised"
       THEN Exit(0, "details") /\ UNCHANGED current_suggestion
       ELSE /\ current_suggestion' = assistant_analyze_changes(result)
            /\ mpc' = "details"
            /\ UNCHANGED exited
    /\ UNCHANGED <<args, repo, prompts, details, message, nvars, svc>>

\* get_commit_details, lines 299-357: the suggestion taken as it is (force)
\* or the user's type, breaking flag and scope
get_commit_details ==
    /\ mpc = "details"
    /\ LET sugg == current_suggestion
       IN  IF args.force
           THEN /\ details' = ForcedDetails(sugg)
                /\ mpc' = "format"
                /\ UNCHANGED <<prompts, exited>>
           ELSE \E choice \in TypeChoices, a \in {"yes", "no", "interrupt"},
                   sc \in ScopeChoices :
                   IF choice > Len(ASSISTANT_COMMIT_TYPES)
                   THEN /\ prompts' = Append(prompts, Asked("type", "", choice))
                        /\ Exit(1, "details")
                        /\ UNCHANGED details
                   ELSE IF a = "interrupt"
                   THEN /\ prompts' = prompts \o <<Asked("type", "", choice),
                                                   Asked("breaking", a, 0)>>
                        /\ Exit(0, "details")
                        /\ UNCHANGED details
                   ELSE /\ prompts' = prompts \o <<Asked("type", "", choice),
                                                   Asked("breaking", a, 0),
                                                   Asked("scope", "", sc)>>
                        /\ details' = ChosenDetails(sugg, selected_type(choice),
                                                    a = "yes", SCOPES[sc])
                        /\ mpc' = "format"
                        /\ UNCHANGED exited
    /\ UNCHANGED <<args, repo, current_suggestion, message, nvars, svars>>

\* main, line 742: message = assistant.format_commit_message(details)
FormatMessage ==
    /\ mpc = "format"
    /\ message' = format_commit_message(details)
    /\ mpc' = IF args.force THEN "commit" ELSE "action"
    /\ UNCHANGED <<args, repo, prompts, current_suggestion, details, exited, nvars, svars>>

\* main, lines 747-811: accept, edit or cancel
ChooseAction ==
    /\ mpc = "action"
    /\ \E action \in {"accept", "edit", "cancel", "none", "interrupt"} :
        CASE action = "accept" ->
               /\ prompts' = Append(prompts, Asked("action", action, 0))
               /\ mpc' = "commit"
               /\ UNCHANGED <<message, exited>>
          [] action \in {"cancel", "none", "interrupt"} ->
               /\ prompts' = Append(prompts, Asked("action", action, 0))
               /\ Exit(0, "action")
               /\ UNCHANGED message
          [] action = "edit" ->
               \E edited \in EditedMessages \cup {message},
                  a \in {"yes", "no", "interrupt", "error"} :
                   IF a = "error"
                   THEN /\ prompts' = Append(prompts, Asked("action", action, 0))
                        /\ Exit(1, "action")
                        /\ UNCHANGED message
                   ELSE /\ prompts' = prompts \o <<Asked("action", action, 0),
                                                   Asked("edited", a, 0)>>
                        /\ message' = Strip(edited)
                        /\ IF a = "yes" THEN mpc' = "commit" /\ UNCHANGED exited
                           ELSE Exit(0, "action")
    /\ UNCHANGED <<args, repo, current_suggestion, details, nvars, svars>>

\* what the repository has for a remote when the commit is made: none by the
\* name (repo.remote() raises ValueError), one that remote.exists() denies,
\* or one that exists
Remotes == {"absent", "gone", "exists"}

\* the test of the remote left out
RemoteExists_any(r) == TRUE

\* remote.exists()
RemoteExists(r) == r = "exists"

\* commit_changes, lines 482-483: self.repo.index.commit(message); an
\* exception ends the run with code 1, and without --push main() ends here
commit_changes ==
    /\ mpc = "commit"
    /\ \E git \in {"fails", "ok"}, remote \in Remotes :
        IF git = "fails"
        THEN Exit(1, "commit") /\ UNCHANGED repo
        ELSE /\ repo' = [repo EXCEPT !.commits = Append(@, message),
                                     !.worktree = "clean",
                                     !.remote = remote]
             /\ IF args.push
                THEN mpc' = "push" /\ UNCHANGED exited
                ELSE Exit(0, "end")
    /\ UNCHANGED <<args, prompts, current_suggestion, details, message, nvars, svars>>

\* commit_changes, lines 485-493: the push that follows the commit; pushes
\* counts the calls of remote.push(). A KeyboardInterrupt during the push is
\* not an Exception: it reaches main, lines 815-818, which exits with code 0
Push ==
    /\ mpc = "push"
    /\ IF repo.remote = "absent"
       THEN Exit(1, "commit") /\ UNCHANGED repo
       ELSE IF ~RemoteExists(repo.remote)
       THEN Exit(0, "end") /\ UNCHANGED repo
       ELSE \E git \in {"fails", "ok", "interrupt"} :
               /\ repo' = [repo EXCEPT !.pushes = @ + 1]
               /\ CASE git = "fails" -> Exit(1, "commit")
                    [] git = "interrupt" -> Exit(0, "push")
                    [] OTHER -> Exit(0, "end")
    /\ UNCHANGED <<args, prompts, current_suggestion, details, message, nvars, svars>>

MainNext ==
    \/ ShowStatus
    \/ validate_branch
    \/ GitDiff
    \/ Start
    \/ Request
    \/ Sleep
    \/ Process
    \/ Retry
    \/ analyze_changes
    \/ get_commit_details
    \/ FormatMessage
    \/ ChooseAction
    \/ commit_changes
    \/ Push

SpecMain == MainInit /\ [][MainNext]_vars

----------------------------------------------------------------------------
(* Properties of the normalizer, checked under SpecNorm *)

Returned == npc = "returned"

\* the text is one payload and nothing else
SolePayload == ~content.isNone /\ Len(content.toks) = 1 /\ content.toks[1].k = "payload"

\* the text is one JSON or Python-literal object and nothing else
SoleObject ==
    /\ SolePayload
    /\ content.toks[1].v.syn \in {"json", "pylit"}
    /\ content.toks[1].v.val.k = "dict"

InputRecord == AsRecord(content.toks[1].v.val)

\* no stretch of the text denotes an object that a parser could read
NoObject ==
    \/ content.isNone
    \/ \A i \in 1..Len(content.toks) :
          content.toks[i].k = "payload" =>
              \/ content.toks[i].v.val.k # "dict"
              \/ content.toks[i].v.syn \in {"broken", "pyraise"}

Chore == <<"c", "h", "o", "r", "e">>
Prefix == <<"-", " ">>

\* C1: _parse_ai_response returns a record for every raw text and never
\* raises to its caller.
C1_Totality ==
    Returned =>
        /\ out.exc = "none"
        /\ out.ret.type.k = "str"
        /\ out.ret.description.k = "str"
        /\ out.ret.detailed_description.k = "list"
        /\ out.ret.breaking_change.k = "bool"
        /\ out.ret.breaking_description.k = "str"

WithValidType ==
    parse_ai_response(
        Text(<<Payload(content.toks[1].v.syn,
                       JDict([InputRecord EXCEPT !.type = JStr(<<"f", "e", "a", "t">>)]))>>))

InvalidType ==
    /\ SoleObject
    /\ Truthy(InputRecord.type)
    /\ ~(InputRecord.type.k = "str" /\ InputRecord.type.s \in valid_types)

\* C8: a parsed record whose type is outside the vocabulary is returned with
\* type 'chore' and its other fields as they would be with a valid type; it is
\* not replaced by the canonical default.
C8_TypeFallback ==
    (Returned /\ InvalidType) =>
        /\ out.exc = "none"
        /\ out.ret.type = JStr(Chore)
        /\ out.ret = [WithValidType.ret EXCEPT !.type = JStr(Chore)]
        /\ (WithValidType.ret # get_default_response => out.ret.scope = InputRecord.scope)

C8_Witness ==
    /\ Returned
    /\ InvalidType
    /\ InputRecord.type = JStr(<<"b", "a", "n", "a", "n", "a">>)
    /\ out.ret.type = JStr(Chore)
    /\ out.ret.scope = JStr(<<"A", "P", "I">>)
    /\ out.ret # get_default_response

\* the record of the text was accepted: normalization did not give up
Accepted == SoleObject /\ out.exc = "none" /\ out.ret # get_default_response

\* the description of the text, lowercased and trimmed
CleanDescription == Strip(Lower(InputRecord.description.s))

\* C9: a lowercased, trimmed description longer than 72 characters is returned
\* as its first 69 characters followed by '...', 72 characters in all; one of
\* 72 characters or fewer is returned as it is.
C9_Truncation ==
    (Returned /\ Accepted /\ InputRecord.description.k = "str") =>
        LET d == out.ret.description.s
        IN  IF Len(CleanDescription) > 72
            THEN /\ Len(d) = 72
                 /\ SubSeq(d, 1, 69) = SubSeq(CleanDescription, 1, 69)
                 /\ SubSeq(d, 70, 72) = <<".", ".", ".">>
            ELSE d = CleanDescription

C9_Witness ==
    /\ Returned
    /\ Accepted
    /\ InputRecord.description.k = "str"
    /\ Len(CleanDescription) = 73
    /\ Len(out.ret.description.s) = 72
    /\ out.ret.description.s[72] = "."

\* C10: every line of the detailed_description returned starts with '- ',
\* exactly once for a line that came without the prefix.
C10_DetailLines ==
    (Returned /\ out.exc = "none") =>
        \A i \in 1..Len(out.ret.detailed_description.l) :
            StartsWith(out.ret.detailed_description.l[i].s, Prefix)

\* the record the payload yields when it is the whole text
Unwrapped(p) == parse_ai_response(Text(<<p>>))

\* the text is the payload p inside a code fence, tagged json or untagged
FencedAround(p) ==
    content \in {Text(<<Fence, JsonWord, NL, p, NL, Fence>>), Text(<<Fence, NL, p, NL, Fence>>)}

\* C11: a valid JSON record wrapped in a code fence (tagged json, or
\* untagged) normalizes to the same record as the unwrapped JSON text.
C11_FenceStripping ==
    Returned =>
        \A p \in WrappedPayloads :
            (p.v.syn = "json" /\ p.v.val.k = "dict" /\ FencedAround(p)) => out = Unwrapped(p)

\* the JSON serialization of the canonical default record
DefaultText == Text(<<Payload("json", JDict(get_default_response))>>)

\* C12: normalizing the JSON serialization of the canonical default record
\* returns the canonical default record.
C12_DefaultIdempotent ==
    (Returned /\ content = DefaultText) =>
        /\ out.exc = "none"
        /\ out.ret = get_default_response

C12_Witness ==
    /\ Returned
    /\ content = DefaultText
    /\ Len(out.ret.detailed_description.l) = 3
    /\ out.ret.type = JStr(Chore)

\* the text is one executable expression and nothing else
Executable == SolePayload /\ content.toks[1].v.syn \in {"pyexpr", "pyraise"}

\* C13: the permissive second parse never evaluates the text as code: no
\* call of the text is run, and a text that is an executable expression yields
\* the canonical default.
C13_NoCodeExecution ==
    Returned =>
        /\ ~out.ran
        /\ Executable => (out.exc = "none" /\ out.ret = get_default_response)

\* C18: every record returned has a lowercase scope.
C18_ScopeLowercase ==
    (Returned /\ out.exc = "none") =>
        /\ out.ret.scope.k = "str"
        /\ out.ret.scope.s = Lower(out.ret.scope.s)

\* a field of the text's record is not there, or is the empty string
LacksRequired ==
    \E f \in {InputRecord.type, InputRecord.scope, InputRecord.description} :
        f \in {Absent, JStr(<<>>)}

\* C22: if the parsed object lacks type, scope or description, or one of the
\* three is empty, the canonical default is returned, not a partly filled
\* record.
C22_RequiredFields ==
    (Returned /\ SoleObject /\ LacksRequired) =>
        /\ out.exc = "none"
        /\ out.ret = get_default_response

C22_Witness ==
    /\ Returned
    /\ SoleObject
    /\ InputRecord.type = JStr(<<"f", "e", "a", "t">>)
    /\ InputRecord.scope = JStr(<<>>)
    /\ InputRecord.description = JStr(Body(9))
    /\ out.ret = get_default_response

\* a line with something else than blanks in it
NonBlank(line) == Strip(line) # <<>>

\* the lines of the text's detailed_description that survive: of a string, its
\* non-blank lines; of a list, its non-blank string entries; in their order
Survivors ==
    LET dd == InputRecord.detailed_description
        isLine(x) == x.k = "str" /\ NonBlank(x.s)
        entries == SelectSeq(dd.l, isLine)
    IN  IF dd.k = "str" THEN SelectSeq(SplitOn(dd.s, "\n"), NonBlank)
        ELSE [i \in 1..Len(entries) |-> entries[i].s]

\* the required fields are there and the detailed_description is a string, a
\* list, or missing
DetailCase ==
    /\ SoleObject
    /\ Truthy(InputRecord.type)
    /\ Truthy(InputRecord.scope)
    /\ Truthy(InputRecord.description)
    /\ InputRecord.detailed_description.k \in {"str", "list", "absent"}

C27_NonEmptyFields ==
    (Returned /\ out.exc = "none") =>
        /\ Truthy(out.ret.type)
        /\ Truthy(out.ret.scope)
        /\ Truthy(out.ret.description)

\* the record returned, serialized as JSON
Serialized == Text(<<Payload("json", JDict(out.ret))>>)

\* C28: serializing the returned record as JSON and normalizing that
\* serialization returns a record equal to the first one.
C28_Idempotent ==
    (Returned /\ out.exc = "none") =>
        /\ parse_ai_response(Serialized).exc = "none"
        /\ parse_ai_response(Serialized).ret = out.ret

----------------------------------------------------------------------------
(* Properties of the services, checked under Spec *)

Done == pc = "done"

Posts == {i \in 1..Len(log) : log[i].ev = "post"}
PlainPosts == {i \in Posts : ~log[i].hint}
HintedPosts == {i \in Posts : log[i].hint}

\* the answer gives the service nothing to return: no connection, an error
\* status, a body without the text, or a text that does not normalize
ContentFailure(r) ==
    \/ r.kind # "http"
    \/ r.status # 200
    \/ r.shape # "full"
    \/ ~HasContent(r.text)
    \/ parse_ai_response(r.text).exc # "none"
    \/ parse_ai_response(r.text).ret = get_default_response

\* C2: analyze_changes never raises to its caller for a content-level
\* failure: when the last answer is a network error, an error status, a body
\* without the expected fields or a text that cannot be normalized, the call
\* returns the canonical default.
C2_FailuresAbsorbed ==
    (Done /\ Len(log) > 0 /\ ContentFailure(response)) =>
        outcome = "returned" /\ result = get_default_response

\* C4: with an empty diff and an empty file list every service returns the
\* canonical default without sending any request.
C4_NoRequestWithoutChanges ==
    (Done /\ diff_content = "" /\ files_changed = "") =>
        /\ outcome = "returned"
        /\ result = get_default_response
        /\ log = <<>>

C4_Witness ==
    /\ Done
    /\ svc = "gemini"
    /\ diff_content = ""
    /\ files_changed = ""
    /\ result = get_default_response
    /\ log = <<>>

\* the first text normalized to the canonical default
FirstTextDefaulted ==
    \E i \in 1..Len(log) :
        /\ log[i].ev = "parse"
        /\ ~log[i].hint
        /\ log[i].res.exc = "none"
        /\ log[i].res.ret = get_default_response

\* C5: in every service, a first text that normalizes to the canonical
\* default is followed by exactly one request with the retry hint, and never
\* by a second one.
C5_OneHintedRetry ==
    /\ Cardinality(HintedPosts) <= 1
    /\ (Done /\ FirstTextDefaulted) => Cardinality(HintedPosts) = 1

\* C6: in every service an answer of 429 is tried again, up to 3 requests in
\* all, and when every attempt answers 429 the call returns the canonical
\* default without raising.
C6_RateLimitRetried ==
    (Done /\ PlainPosts # {} /\ \A i \in PlainPosts : log[i].status = 429) =>
        /\ Cardinality(PlainPosts) = 3
        /\ outcome = "returned"
        /\ result = get_default_response

\* a request that failed in transport, 429 apart
TransportFailure(e) ==
    /\ e.ev = "post"
    /\ \/ e.kind = "neterr"
       \/ e.kind = "http" /\ e.status >= 400 /\ e.status # 429

\* C7 as stated: after a transport failure other than 429 no further request
\* is sent and the canonical default is returned.
C7_NoRetryOnFailure ==
    \A i \in 1..Len(log) :
        TransportFailure(log[i]) =>
            /\ \A j \in (i + 1)..Len(log) : log[j].ev # "post"
            /\ Done => result = get_default_response

\* C7 amended: in DeepseekService, ClaudeService and GeminiService, and for
\* the request with the retry hint of any service, a transport failure other
\* than 429 ends the call: no further request, the canonical default returned.
\* OpenAIService sends its plain request up to 3 times: a failure of the first
\* or second attempt is followed at once by the next attempt, a failure of the
\* third ends the call with the canonical default.
C7_RetryOnFailureOpenAIOnly ==
    \A i \in 1..Len(log) :
        TransportFailure(log[i]) =>
            IF svc = "openai" /\ ~log[i].hint /\ log[i].n < 2
            THEN \/ i = Len(log) /\ pc = "request" /\ attempt = log[i].n + 1
                 \/ /\ i < Len(log)
                    /\ log[i + 1].ev = "post"
                    /\ ~log[i + 1].hint
                    /\ log[i + 1].n = log[i].n + 1
            ELSE /\ i = Len(log)
                 /\ Done
                 /\ outcome = "returned"
                 /\ result = get_default_response

C7_Witness ==
    /\ Done
    /\ svc = "openai"
    /\ Len(log) = 3
    /\ \A i \in 1..3 : TransportFailure(log[i]) /\ log[i].n = i - 1
    /\ result = get_default_response

\* the text of the tests' mocked answer
TestText == Text(<<Payload("json", JDict(TestRecord))>>)

\* the first request was answered 200 with the tests' record as its text
FirstAnswerIsTestRecord ==
    /\ Len(log) > 0
    /\ log[1].ev = "post"
    /\ log[1].kind = "http"
    /\ log[1].status = 200
    /\ log[1].shape \in {"full", "untyped"}
    /\ log[1].text = TestText

\* C17: for each service, an answer whose text is a valid JSON record (its
\* detailed_description one string prefixed '- ') makes analyze_changes return
\* a record equal to it field for field, detailed_description included, after
\* a single request.
C17_RecordReturnedAsSent ==
    (Done /\ FirstAnswerIsTestRecord) =>
        /\ outcome = "returned"
        /\ result = TestRecord
        /\ Cardinality(Posts) = 1

\* the answer is a success and holds a text where the service looks for it
Extracted(e) ==
    /\ e.ev = "post"
    /\ e.kind = "http"
    /\ e.status = 200
    /\ e.shape = "full"
    /\ ~e.text.isNone
    /\ e.text.toks # <<>>

\* the answer is a success from which no text can be extracted
EmptyExtraction(e) ==
    /\ e.ev = "post"
    /\ e.kind = "http"
    /\ e.status = 200
    /\ ~Extracted(e)

\* C24: when the first successful response yields no extractable text the
\* call returns the canonical default and sends no hinted request; a hinted
\* request directly follows a normalization to the default of a text that was
\* extracted from a successful answer, never an empty extraction or a network
\* failure.
C24_NoHintAfterEmptyExtraction ==
    /\ \A i \in HintedPosts :
        /\ i > 2
        /\ log[i - 1].ev = "parse"
        /\ ~log[i - 1].hint
        /\ log[i - 1].res.exc = "none"
        /\ log[i - 1].res.ret = get_default_response
        /\ Extracted(log[i - 2])
        /\ ~log[i - 2].hint
    /\ (Done /\ \E i \in PlainPosts : EmptyExtraction(log[i])) =>
        /\ outcome = "returned"
        /\ result = get_default_response
        /\ HintedPosts = {}

C24_Witness ==
    /\ Done
    /\ svc = "gemini"
    /\ Len(log) = 1
    /\ EmptyExtraction(log[1])
    /\ log[1].shape = "full"
    /\ log[1].text = Text(<<>>)
    /\ result = get_default_response

\* the waits of the policy, by the number of the attempt
Backoff == <<1, 2, 4>>

\* C25: in OpenAIService.analyze_changes the wait after the attempt numbered
\* k that answered 429 is min(2^k, 8) seconds, that is 1, 2, 4, and never more
\* than 8; attempts are sequential: the plain attempts are numbered in the
\* order they are sent, an attempt answered 429 is followed by its wait before
\* anything else happens, and a wait only follows such an attempt.
C25_BackoffSequential ==
    /\ \A i \in 1..Len(log) :
        log[i].ev = "sleep" =>
            /\ svc = "openai"
            /\ i > 1
            /\ log[i - 1].ev = "post"
            /\ ~log[i - 1].hint
            /\ log[i - 1].status = 429
            /\ log[i - 1].n \in 0..2
            /\ log[i].n = Backoff[log[i - 1].n + 1]
            /\ log[i].n <= 8
    /\ \A i \in PlainPosts :
        /\ (svc = "openai" /\ log[i].kind = "http" /\ log[i].status = 429 /\ i < Len(log))
               => log[i + 1].ev = "sleep"
        /\ log[i].n = Cardinality({j \in PlainPosts : j < i})

C25_Witness ==
    /\ Done
    /\ svc = "openai"
    /\ Len(log) = 6
    /\ \A k \in 0..2 :
        /\ log[2 * k + 1].ev = "post"
        /\ log[2 * k + 1].status = 429
        /\ log[2 * k + 1].n = k
        /\ log[2 * k + 2].ev = "sleep"
    /\ log[2].n = 1
    /\ log[4].n = 2
    /\ log[6].n = 4

\* the most requests one call of the service sends
MostPosts(s) ==
    CASE s = "openai" -> 4
      [] s = "claude" -> 1
      [] OTHER -> 2

\* C26: every call of analyze_changes ends, whatever the provider answers,
\* and sends at most 4 requests for OpenAIService (3 attempts and one hinted
\* retry), at most 2 for DeepseekService and GeminiService, at most 1 for
\* ClaudeService.
C26_BoundedRequests ==
    /\ [](Cardinality(Posts) <= MostPosts(svc))
    /\ <>Done

C26_Witness ==
    /\ Done
    /\ svc = "openai"
    /\ Cardinality(PlainPosts) = 3
    /\ Cardinality(HintedPosts) = 1


----------------------------------------------------------------------------
(* Properties of main(), checked under SpecMain *)

\* the message is the one format_commit_message returned
Formatted == mpc = "action" \/ (mpc = "commit" /\ args.force)

\* the first line of the message
Header == SplitOn(message, "\n")[1]

EndsWith(s, suffix) ==
    Len(s) >= Len(suffix) /\ SubSeq(s, Len(s) - Len(suffix) + 1, Len(s)) = suffix

\* a blank line, then 'BREAKING CHANGE: <breaking_description lowercased>'
BreakingEnd ==
    <<"\n", "\n", "B", "R", "E", "A", "K", "I", "N", "G", " ", "C", "H", "A", "N", "G", "E",
      ":", " ">> \o Lower(details.breaking_description.s)

\* C14: the header is '<glyph> <type>[!](<scope>): <description>' with '!'
\* directly after the type if and only if breaking_change is true, and the
\* message ends with a blank line and 'BREAKING CHANGE: <breaking_description
\* lowercased>' if and only if breaking_change is true.
C14_BreakingMarkedInBoth ==
    Formatted =>
        LET breaking == Truthy(details.breaking_change)
            glyph == emoji(details.type)
            after == Len(glyph) + 1 + Len(details.type.s) + 1
        IN  /\ Header = glyph \o <<" ">> \o details.type.s
                        \o (IF breaking THEN <<"!">> ELSE <<>>)
                        \o <<"(">> \o Lower(details.scope.s) \o <<")", ":", " ">>
                        \o Lower(details.description.s)
            /\ (Header[after] = "!") <=> breaking
            /\ EndsWith(message, BreakingEnd) <=> breaking

C14_Witness ==
    /\ Formatted
    /\ details.breaking_change = JBool(TRUE)
    /\ details.type = JStr(<<"f", "i", "x">>)
    /\ SubSeq(Header, 1, 10) = <<"U+1F41B", " ", "f", "i", "x", "!", "(", "a", "p", "i">>
    /\ EndsWith(message, <<":", " ", "d", "r", "o", "p", "s", " ", "v", "1">>)

\* get_commit_details has returned its record
DetailsMade ==
    \/ mpc \in {"format", "action", "commit", "push"}
    \/ mpc = "exit" /\ exited.at \in {"action", "commit", "push", "end"}

\* the user answered yes to "Is this a breaking change?"
UserSaysBreaking ==
    \E i \in 1..Len(prompts) : prompts[i].q = "breaking" /\ prompts[i].a = "yes"

\* C15: the breaking flag of the details that are formatted is (the user's
\* answer) or (the breaking_change of the suggestion).
C15_BreakingFromEither ==
    DetailsMade =>
        (Truthy(details.breaking_change)
            <=> (UserSaysBreaking \/ Truthy(current_suggestion.breaking_change)))

\* the last answer was an exception of the request, or the text 'invalid json'
RaisedOrInvalid ==
    \/ response.kind = "error"
    \/ /\ response.kind = "http"
       /\ response.status = 200
       /\ response.shape \in {"full", "untyped"}
       /\ response.text = Text(<<Word, WS, JsonWord>>)

\* C16: when the request raises, or the text is not valid JSON, the record
\* the service returns, and the one GitCommitAssistant.analyze_changes makes
\* of it, have type 'feat' and scope 'core'.
C16_DefaultIsFeat ==
    (mpc = "service" /\ pc = "done" /\ RaisedOrInvalid) =>
        /\ outcome = "returned"
        /\ result.type = JStr(<<"f", "e", "a", "t">>)
        /\ result.scope = JStr(<<"c", "o", "r", "e">>)
        /\ assistant_analyze_changes(result).type = JStr(<<"f", "e", "a", "t">>)
        /\ assistant_analyze_changes(result).scope = JStr(<<"c", "o", "r", "e">>)

\* C19: in every record _parse_ai_response returns, and in every details
\* record handed to the formatter, breaking_description is empty whenever
\* breaking_change is false.
C19_NoBreakingDescriptionUnlessBreaking ==
    /\ \A i \in 1..Len(log) :
          (log[i].ev = "parse" /\ log[i].res.exc = "none"
           /\ ~Truthy(log[i].res.ret.breaking_change))
              => log[i].res.ret.breaking_description = JStr(<<>>)
    /\ DetailsMade =>
          (~Truthy(details.breaking_change) => details.breaking_description = JStr(<<>>))

\* validate_branch has run
BranchChecked ==
    \/ mpc \in {"diff", "service", "details", "format", "action", "commit", "push"}
    \/ mpc = "exit" /\ exited.at # "status"

\* the user was asked "Are you sure you want to commit to this branch?"
BranchAsked == prompts # <<>> /\ prompts[1].q = "branch"

\* C20: validate_branch asks for confirmation whenever the branch is main,
\* master, dev or develop, also with force, and exits the program, with no
\* commit, when the user declines; on any other branch it returns without
\* asking and without exiting.
C20_ProtectedBranchConfirmed ==
    BranchChecked =>
        IF repo.branch \in {"main", "master", "dev", "develop"}
        THEN /\ BranchAsked
             /\ prompts[1].a # "yes" =>
                   /\ mpc = "exit"
                   /\ exited = [code |-> 0, at |-> "branch"]
                   /\ repo.commits = <<>>
                   /\ repo.pushes = 0
        ELSE /\ ~BranchAsked
             /\ exited.at # "branch"

C20_Witness ==
    /\ args.force
    /\ repo.branch = "develop"
    /\ BranchAsked
    /\ prompts[1].a = "no"
    /\ mpc = "exit"
    /\ repo.commits = <<>>


\* the run ended at the end of main(): commit_changes returned
Ended == mpc = "exit" /\ exited = [code |-> 0, at |-> "end"]

\* C21: commit_changes(message, push) creates one commit whose message is
\* exactly the given message; when push is true and a remote exists it calls
\* the push exactly once, and only after the commit has been created; when push
\* is false, or the remote does not exist, it never pushes.
C21_CommitThenPush ==
    [][ /\ repo'.commits # repo.commits =>
            /\ mpc = "commit"
            /\ repo'.commits = <<message>>
            /\ repo'.pushes = repo.pushes
        /\ repo'.pushes # repo.pushes =>
            /\ repo.commits = <<message>>
            /\ repo'.commits = repo.commits
            /\ repo.pushes = 0
            /\ repo'.pushes = 1
            /\ args.push
            /\ repo.remote = "exists"
        /\ Ended' =>
            /\ repo'.commits = <<message'>>
            /\ repo'.pushes = IF args.push /\ repo'.remote = "exists" THEN 1 ELSE 0
        /\ (~args.push \/ repo'.remote # "exists") => repo'.pushes = 0
      ]_vars

C21_Witness ==
    /\ Ended
    /\ args.push
    /\ repo.remote = "exists"
    /\ repo.commits = <<message>>
    /\ repo.pushes = 1

\* GitCommitAssistant.analyze_changes was called and is over
AnalysisOver ==
    \/ mpc \in {"details", "format", "action", "commit", "push"}
    \/ mpc = "exit" /\ exited.at \in {"details", "action", "commit", "push", "end"}

\* a record with type, scope and description, and a list of lines '- ...'
GoodSuggestion(r) ==
    /\ Truthy(r.type)
    /\ Truthy(r.scope)
    /\ Truthy(r.description)
    /\ r.detailed_description.k = "list"
    /\ Len(r.detailed_description.l) > 0
    /\ \A i \in 1..Len(r.detailed_description.l) :
          /\ r.detailed_description.l[i].k = "str"
          /\ StartsWith(r.detailed_description.l[i].s, <<"-", " ">>)

\* the record of the service lacks a field, or has no list of lines, or no
\* line in it that is a string with more than blanks
FailsChecks(r) ==
    \/ ~Truthy(r.type)
    \/ ~Truthy(r.scope)
    \/ ~Truthy(r.description)
    \/ r.detailed_description.k # "list"
    \/ \A i \in 1..Len(r.detailed_description.l) :
          \/ r.detailed_description.l[i].k # "str"
          \/ Strip(r.detailed_description.l[i].s) = <<>>

\* C29: GitCommitAssistant.analyze_changes returns, for every result of the
\* service and every project configuration and without raising, a record with
\* non-empty type, scope and description and a non-empty list of lines that
\* each start with '- '; when the result of the service fails one of these
\* checks it returns its own default (feat, core, 'update code').
C29_AnalysisAlwaysReturns ==
    /\ AnalysisOver => GoodSuggestion(current_suggestion)
    /\ (mpc = "service" /\ pc = "done" /\ outcome = "returned" /\ FailsChecks(result)) =>
          assistant_analyze_changes(result) = get_default_commit_details

\* the last prompt answered
LastPrompt == prompts[Len(prompts)]

\* --force, or 'accept', or yes to "Proceed with this edited message?"
Consent ==
    \/ args.force
    \/ /\ prompts # <<>>
       /\ \/ LastPrompt.q = "action" /\ LastPrompt.a = "accept"
          \/ LastPrompt.q = "edited" /\ LastPrompt.a = "yes"

\* the branch is not protected, or the user confirmed it
BranchPassed ==
    repo.branch \in {"main", "master", "dev", "develop"} =>
        prompts # <<>> /\ prompts[1].q = "branch" /\ prompts[1].a = "yes"

\* the user cancelled, dismissed the action prompt, declined the edited
\* message, or interrupted with the keyboard
Stopped ==
    \/ \E i \in 1..Len(prompts) :
          \/ prompts[i].q = "action" /\ prompts[i].a \in {"cancel", "none"}
          \/ prompts[i].q = "edited" /\ prompts[i].a = "no"
          \/ prompts[i].a = "interrupt"
    \/ exited.at = "push"

\* C30: in main a commit is created only after staged changes were found, the
\* branch check passed, and --force was given or the user chose 'accept' or
\* confirmed the edited message; after 'cancel', a dismissed action prompt, a
\* declined edited message or a keyboard interrupt the run ends without any
\* commit or push.
C30_CommitOnlyWithConsent ==
    [][ /\ repo'.commits # repo.commits =>
            /\ repo.worktree = "staged"
            /\ BranchPassed
            /\ Consent
        /\ (mpc' = "exit" /\ Stopped') =>
            /\ repo'.commits = <<>>
            /\ repo'.pushes = 0
      ]_vars

====
